---- MODULE Spec2Model ----
(***************************************************************************)
(* Model of backend-server-examples/python/main.py: a FastAPI server that  *)
(* forwards each HTTP request to one method of a process-wide DCID SDK     *)
(* client and translates SDK exceptions into JSON error responses.         *)
(*                                                                         *)
(* The SDK (package dcid_server_sdk) is an external collaborator.  Of it   *)
(* the model keeps only what main.py relies on: the client holds one       *)
(* current auth token, written by set_auth_token and set_tokens and read   *)
(* by every operation; an operation either returns a result or raises.     *)
(* Strings that the code slices or tests (the Authorization header, the    *)
(* tokens) are sequences of one-character strings.                         *)
(***************************************************************************)
EXTENDS Integers, Sequences, FiniteSets, TLC

VARIABLES
    authToken,   \* the auth token held by the shared client `sdk` (line 55)
    slots,       \* the requests being handled, one record per worker thread
    last         \* how the most recently answered request ended

vars == <<authToken, slots, last>>

(***************************************************************************)
(* Bounds.                                                                 *)
(***************************************************************************)
MaxTokenLen == 1     \* longest token text carried by a header
NumSlots == 2        \* worker threads that can hold a request

Slots == 1..NumSlots

(***************************************************************************)
(* Optional[T]                                                             *)
(***************************************************************************)
None == [some |-> FALSE]
Some(v) == [some |-> TRUE, val |-> v]

(***************************************************************************)
(* Python strings as sequences of characters.                              *)
(***************************************************************************)
RECURSIVE SeqsUpTo(_, _)
SeqsUpTo(S, n) ==
    IF n = 0 THEN {<<>>}
    ELSE LET shorter == SeqsUpTo(S, n - 1)
         IN  shorter \cup {Append(s, c) : s \in shorter, c \in S}

\* str.startswith
startswith(s, prefix) ==
    /\ Len(s) >= Len(prefix)
    /\ SubSeq(s, 1, Len(prefix)) = prefix

\* s[n:]
SliceFrom(s, n) == SubSeq(s, n + 1, Len(s))

\* truth value of an Optional[str]: None and "" are false
Truthy(o) == o.some /\ o.val # <<>>

\* `x or d` on an Optional[int]: None and 0 are false
OrElse(x, d) == IF x.some /\ x.val # 0 THEN x.val ELSE d

BearerPrefix == <<"B", "e", "a", "r", "e", "r", " ">>
BearerSliceAt == 7

HTTP_200_OK == 200
HTTP_401_UNAUTHORIZED == 401
HTTP_500_INTERNAL_SERVER_ERROR == 500
HTTP_502_BAD_GATEWAY == 502

(***************************************************************************)
(* Exceptions.  An exception is described by the SDK classes it is an      *)
(* instance of (isinstance) and by the attributes handle_sdk_error reads.  *)
(***************************************************************************)
SDKClasses == {"AuthenticationError", "NetworkError", "ServerError", "DCIDServerSDKError"}

Exc(classes, status_code, is_api_key_error, code) ==
    [classes |-> classes, status_code |-> status_code,
     is_api_key_error |-> is_api_key_error, code |-> code, message |-> "msg"]

\* KeyError / AttributeError / TypeError raised by main.py's own reshaping code
BuiltinError == Exc({}, None, FALSE, "")

UpstreamStatuses == {400, 401, 503}
NetworkCodes == {"ECONNREFUSED", "ETIMEDOUT"}

ErrorsOfClasses(classSets) ==
    { e \in [classes : classSets,
             status_code : {None} \cup {Some(s) : s \in UpstreamStatuses},
             is_api_key_error : BOOLEAN,
             code : NetworkCodes \cup {""},
             message : {"msg"}] :
        /\ ("AuthenticationError" \notin e.classes => e.is_api_key_error = FALSE)
        /\ ("NetworkError" \in e.classes <=> e.code # "") }

\* every combination of classes, including instances of several of them
AllErrors == ErrorsOfClasses(SUBSET SDKClasses)

\* the SDK's hierarchy: the three specific errors derive from DCIDServerSDKError
HierarchyErrors ==
    ErrorsOfClasses({ {},
                      {"DCIDServerSDKError"},
                      {"DCIDServerSDKError", "AuthenticationError"},
                      {"DCIDServerSDKError", "NetworkError"},
                      {"DCIDServerSDKError", "ServerError"} })

(***************************************************************************)
(* Responses.                                                              *)
(***************************************************************************)
JSONResponse(status_code, content) ==
    [status_code |-> status_code, media |-> "application/json", body |-> content]

\* what the framework answers when an exception leaves a handler
PlainServerError ==
    [status_code |-> HTTP_500_INTERNAL_SERVER_ERROR, media |-> "text/plain",
     body |-> [text |-> "Internal Server Error"]]

NoResponse == [status_code |-> 0, media |-> "", body |-> [none |-> TRUE]]

\* handle_sdk_error with the NetworkError test moved in front of the
\* AuthenticationError test
handle_sdk_error_network_first(error) ==
    IF "NetworkError" \in error.classes THEN
        JSONResponse(HTTP_502_BAD_GATEWAY,
                     [error |-> error.message, type |-> "NetworkError",
                      code |-> error.code])
    ELSE IF "AuthenticationError" \in error.classes THEN
        JSONResponse(OrElse(error.status_code, HTTP_401_UNAUTHORIZED),
                     [error |-> error.message, type |-> "AuthenticationError",
                      isAPIKeyError |-> error.is_api_key_error])
    ELSE IF "ServerError" \in error.classes THEN
        JSONResponse(OrElse(error.status_code, HTTP_500_INTERNAL_SERVER_ERROR),
                     [error |-> error.message, type |-> "ServerError"])
    ELSE IF "DCIDServerSDKError" \in error.classes THEN
        JSONResponse(OrElse(error.status_code, HTTP_500_INTERNAL_SERVER_ERROR),
                     [error |-> error.message, type |-> "SDKError"])
    ELSE
        JSONResponse(HTTP_500_INTERNAL_SERVER_ERROR,
                     [error |-> error.message, type |-> "UnknownError"])

\* handle_sdk_error answering every AuthenticationError with 401, whatever
\* status the error carries
handle_sdk_error_auth_always_401(error) ==
    IF "AuthenticationError" \in error.classes THEN
        JSONResponse(HTTP_401_UNAUTHORIZED,
                     [error |-> error.message, type |-> "AuthenticationError",
                      isAPIKeyError |-> error.is_api_key_error])
    ELSE IF "NetworkError" \in error.classes THEN
        JSONResponse(HTTP_502_BAD_GATEWAY,
                     [error |-> error.message, type |-> "NetworkError",
                      code |-> error.code])
    ELSE IF "ServerError" \in error.classes THEN
        JSONResponse(OrElse(error.status_code, HTTP_500_INTERNAL_SERVER_ERROR),
                     [error |-> error.message, type |-> "ServerError"])
    ELSE IF "DCIDServerSDKError" \in error.classes THEN
        JSONResponse(OrElse(error.status_code, HTTP_500_INTERNAL_SERVER_ERROR),
                     [error |-> error.message, type |-> "SDKError"])
    ELSE
        JSONResponse(HTTP_500_INTERNAL_SERVER_ERROR,
                     [error |-> error.message, type |-> "UnknownError"])

\* handle_sdk_error passing a NetworkError's own status through, as the other
\* branches do
handle_sdk_error_network_status(error) ==
    IF "AuthenticationError" \in error.classes THEN
        JSONResponse(OrElse(error.status_code, HTTP_401_UNAUTHORIZED),
                     [error |-> error.message, type |-> "AuthenticationError",
                      isAPIKeyError |-> error.is_api_key_error])
    ELSE IF "NetworkError" \in error.classes THEN
        JSONResponse(OrElse(error.status_code, HTTP_502_BAD_GATEWAY),
                     [error |-> error.message, type |-> "NetworkError",
                      code |-> error.code])
    ELSE IF "ServerError" \in error.classes THEN
        JSONResponse(OrElse(error.status_code, HTTP_500_INTERNAL_SERVER_ERROR),
                     [error |-> error.message, type |-> "ServerError"])
    ELSE IF "DCIDServerSDKError" \in error.classes THEN
        JSONResponse(OrElse(error.status_code, HTTP_500_INTERNAL_SERVER_ERROR),
                     [error |-> error.message, type |-> "SDKError"])
    ELSE
        JSONResponse(HTTP_500_INTERNAL_SERVER_ERROR,
                     [error |-> error.message, type |-> "UnknownError"])

\* handle_sdk_error(error)
handle_sdk_error(error) ==
    IF "AuthenticationError" \in error.classes THEN
        JSONResponse(OrElse(error.status_code, HTTP_401_UNAUTHORIZED),
                     [error |-> error.message, type |-> "AuthenticationError",
                      isAPIKeyError |-> error.is_api_key_error])
    ELSE IF "NetworkError" \in error.classes THEN
        JSONResponse(HTTP_502_BAD_GATEWAY,
                     [error |-> error.message, type |-> "NetworkError",
                      code |-> error.code])
    ELSE IF "ServerError" \in error.classes THEN
        JSONResponse(OrElse(error.status_code, HTTP_500_INTERNAL_SERVER_ERROR),
                     [error |-> error.message, type |-> "ServerError"])
    ELSE IF "DCIDServerSDKError" \in error.classes THEN
        JSONResponse(OrElse(error.status_code, HTTP_500_INTERNAL_SERVER_ERROR),
                     [error |-> error.message, type |-> "SDKError"])
    ELSE
        JSONResponse(HTTP_500_INTERNAL_SERVER_ERROR,
                     [error |-> error.message, type |-> "UnknownError"])

(***************************************************************************)
(* The route table: for each handler, whether it calls                    *)
(* set_auth_from_request, the SDK operation it invokes, whether it then    *)
(* calls sdk.set_tokens, and the pairs <<response key, result attribute>>  *)
(* of the body it builds from the result.                                  *)
(***************************************************************************)
Route(bearer, module, method, set_tokens, shape) ==
    [bearer |-> bearer, op |-> <<module, method>>, set_tokens |-> set_tokens,
     shape |-> shape]

SDKRoutes ==
    [ sign_in_initiate |->
        Route(FALSE, "auth", "register_otp", FALSE, {<<"otp", "otp">>}),
      sign_in_confirm |->
        Route(FALSE, "auth", "confirm_otp", TRUE,
              {<<"access_token", "access_token">>, <<"refresh_token", "refresh_token">>}),
      admin_login |->
        Route(FALSE, "auth", "admin_login", FALSE, {<<"otp", "otp">>}),
      token_refresh |->
        Route(FALSE, "auth", "refresh_token", TRUE,
              {<<"access_token", "access_token">>, <<"refresh_token", "refresh_token">>}),
      get_encrypted_key |->
        Route(TRUE, "identity.encryption", "get_key", FALSE,
              {<<"encryptedKey", "encrypted_key">>, <<"did", "did">>,
               <<"message", "message">>}),
      generate_encrypted_key |->
        Route(TRUE, "identity.encryption", "generate_key", FALSE,
              {<<"encryptedKey", "encrypted_key">>, <<"did", "did">>,
               <<"ownerEmail", "owner_email">>, <<"message", "message">>}),
      issue_credential |->
        Route(TRUE, "identity.issuer", "issue_credential", FALSE, {}),
      get_credential_offer |->
        Route(TRUE, "identity.issuer", "get_credential_offer", FALSE,
              {<<"status", "status">>, <<"txId", "tx_id">>, <<"claimId", "claim_id">>,
               <<"offerAvailable", "offer_available">>,
               <<"qrCodeLink", "qr_code_link">>, <<"offer", "offer">>,
               <<"message", "message">>}),
      store_credential |->
        Route(TRUE, "identity.ipfs", "store_credential", FALSE,
              {<<"cid", "cid">>, <<"did", "did">>,
               <<"credentialType", "credential_type">>, <<"message", "message">>,
               <<"encrypted", "encrypted">>}),
      retrieve_user_credential |->
        Route(TRUE, "identity.ipfs", "retrieve_user_credential", FALSE,
              {<<"cid", "cid">>, <<"did", "did">>,
               <<"credentialType", "credential_type">>, <<"message", "message">>,
               <<"credential", "credential">>, <<"encrypted", "encrypted">>}),
      get_all_user_credentials |->
        Route(TRUE, "identity.ipfs", "get_all_user_credentials", FALSE,
              {<<"credentials", "credentials">>, <<"did", "did">>,
               <<"count", "count">>, <<"message", "message">>}),
      verify_sign_in |->
        Route(TRUE, "identity.verification", "verify_sign_in", FALSE,
              {<<"proofRequestUrl", "proof_request_url">>,
               <<"iden3commUrl", "iden3comm_url">>, <<"sessionId", "session_id">>}),
      get_link_store |->
        Route(TRUE, "identity.verification", "get_link_store", FALSE,
              {<<"id", "id">>, <<"thid", "thid">>, <<"type", "type">>,
               <<"from", "from_did">>, <<"typ", "typ">>, <<"body", "body">>}),
      post_link_store |->
        Route(TRUE, "identity.verification", "post_link_store", FALSE,
              {<<"proofRequestUrl", "proof_request_url">>,
               <<"iden3commUrl", "iden3comm_url">>}),
      verify_callback |->
        Route(TRUE, "identity.verification", "verify_callback", FALSE,
              {<<"id", "id">>, <<"typ", "typ">>, <<"type", "type">>,
               <<"thid", "thid">>, <<"body", "body">>, <<"from", "from_did">>,
               <<"to", "to">>}),
      start_session |->
        Route(FALSE, "analytics", "start_session", FALSE,
              {<<"success", "success">>, <<"session_id", "session_id">>,
               <<"timestamp", "timestamp">>, <<"anonymous_id", "anonymous_id">>,
               <<"linked", "linked">>}),
      end_session |->
        Route(FALSE, "analytics", "end_session", FALSE,
              {<<"success", "success">>, <<"timestamp", "timestamp">>}) ]

SDKRouteNames == DOMAIN SDKRoutes
RouteNames == SDKRouteNames \cup {"health"}

\* the sub-modules of the SDK facade
SDKModules == {"auth", "identity.encryption", "identity.issuer", "identity.ipfs",
               "identity.verification", "analytics"}

\* handlers that call the SDK operation before set_auth_from_request
HandlerSteps_call_first(route) ==
    IF route = "health" THEN <<"respond">>
    ELSE IF SDKRoutes[route].bearer THEN <<"sdk_call", "set_auth", "respond">>
    ELSE <<"sdk_call", "respond">>

\* the statements of a handler, in program order
HandlerSteps(route) ==
    IF route = "health" THEN <<"respond">>
    ELSE IF SDKRoutes[route].bearer THEN <<"set_auth", "sdk_call", "respond">>
    ELSE <<"sdk_call", "respond">>

(***************************************************************************)
(* Inputs: Authorization headers, SDK results and SDK exceptions.          *)
(***************************************************************************)
TokenChars == {"a", "b"}
TokenTexts == SeqsUpTo(TokenChars, MaxTokenLen)

\* "Bearer ", "bearer ", "Bearer" and "" in front of a token text
HeaderPrefixes == { BearerPrefix,
                    <<"b", "e", "a", "r", "e", "r", " ">>,
                    <<"B", "e", "a", "r", "e", "r">>,
                    <<>> }
Headers == {None} \cup {Some(p \o t) : p \in HeaderPrefixes, t \in TokenTexts}

\* access tokens the auth service hands out
IssuedTokens == {<<"s">>, <<"t">>}

IssueCredentialKeys == {"qr_code_link", "schema_type", "tx_id", "claim_id"}

\* an object or dict with the given attributes; each value is tagged by its name
Obj(attrs) == [a \in attrs |-> a]

ShapeAttrs(route) == {p[2] : p \in SDKRoutes[route].shape}

\* what the SDK operation of a route can return
Results(route) ==
    IF SDKRoutes[route].set_tokens THEN
        {[access_token |-> t, refresh_token |-> <<"r">>] : t \in IssuedTokens}
    ELSE IF route = "issue_credential" THEN
        {Obj(ks) : ks \in SUBSET IssueCredentialKeys}
    ELSE
        {Obj(ShapeAttrs(route)), Obj({})}

Returned(result) == [raised |-> FALSE, result |-> result]
Raised(exc) == [raised |-> TRUE, exc |-> exc]
NoOutcome == [raised |-> FALSE, pending |-> TRUE]

Outcomes(route, errors) ==
    {Returned(res) : res \in Results(route)} \cup {Raised(e) : e \in errors}

(***************************************************************************)
(* set_auth_from_request(authorization): the client's token afterwards.    *)
(***************************************************************************)
\* set_auth_from_request without the startswith("Bearer ") test
set_auth_from_request_unchecked(token, authorization) ==
    IF Truthy(authorization)
    THEN Some(SliceFrom(authorization.val, BearerSliceAt))
    ELSE token

\* set_auth_from_request dropping the client's token when the request brings
\* no usable header
set_auth_from_request_clears(token, authorization) ==
    IF Truthy(authorization) /\ startswith(authorization.val, BearerPrefix)
    THEN Some(SliceFrom(authorization.val, BearerSliceAt))
    ELSE None

set_auth_from_request(token, authorization) ==
    IF Truthy(authorization) /\ startswith(authorization.val, BearerPrefix)
    THEN Some(SliceFrom(authorization.val, BearerSliceAt))
    ELSE token

(***************************************************************************)
(* The body a handler builds from the result of its SDK operation.  A      *)
(* missing key or attribute raises (KeyError, AttributeError).             *)
(***************************************************************************)
Built(body) == [raised |-> FALSE, body |-> body]

\* issue_credential copying every key the result has
issue_credential_body_mixed(result) ==
    IF "qr_code_link" \in DOMAIN result THEN
        IF "schema_type" \in DOMAIN result
        THEN Built([k \in {"qrCodeLink", "schemaType"} \cup
                          (IF "tx_id" \in DOMAIN result THEN {"txId"} ELSE {}) |->
                      IF k = "qrCodeLink" THEN result["qr_code_link"]
                      ELSE IF k = "schemaType" THEN result["schema_type"]
                      ELSE result["tx_id"]])
        ELSE Raised(BuiltinError)
    ELSE
        IF {"tx_id", "claim_id"} \subseteq DOMAIN result
        THEN Built([txId |-> result["tx_id"], claimId |-> result["claim_id"]])
        ELSE Raised(BuiltinError)

\* issue_credential, lines 320-323
issue_credential_body(result) ==
    IF "qr_code_link" \in DOMAIN result THEN
        IF "schema_type" \in DOMAIN result
        THEN Built([qrCodeLink |-> result["qr_code_link"],
                    schemaType |-> result["schema_type"]])
        ELSE Raised(BuiltinError)
    ELSE
        IF {"tx_id", "claim_id"} \subseteq DOMAIN result
        THEN Built([txId |-> result["tx_id"], claimId |-> result["claim_id"]])
        ELSE Raised(BuiltinError)

reshape(route, result) ==
    IF route = "issue_credential" THEN issue_credential_body(result)
    ELSE LET shape == SDKRoutes[route].shape
             keys == {p[1] : p \in shape}
             attr(k) == (CHOOSE p \in shape : p[1] = k)[2]
         IN  IF ShapeAttrs(route) \subseteq DOMAIN result
             THEN Built([k \in keys |-> result[attr(k)]])
             ELSE Raised(BuiltinError)

\* a handler that calls its operation again when it raised
SdkInvocations_retry(route, token, outcome) ==
    IF outcome.raised
    THEN << [op |-> SDKRoutes[route].op, token |-> token],
            [op |-> SDKRoutes[route].op, token |-> token] >>
    ELSE << [op |-> SDKRoutes[route].op, token |-> token] >>

\* the calls a handler makes into the SDK facade's sub-modules
SdkInvocations(route, token, outcome) ==
    << [op |-> SDKRoutes[route].op, token |-> token] >>

\* a handler whose try block ends at the SDK call: an exception raised while
\* building the body leaves the handler
HandlerResponse_body_outside_try(route, outcome) ==
    IF route = "health" THEN
        JSONResponse(HTTP_200_OK,
                     [status |-> "ok", service |-> "dcid-server-sdk-test-server"])
    ELSE IF outcome.raised THEN handle_sdk_error(outcome.exc)
    ELSE LET built == reshape(route, outcome.result)
         IN  IF built.raised THEN PlainServerError
             ELSE JSONResponse(HTTP_200_OK, built.body)

\* the statements of a handler's try block after the SDK call, and its
\* except clause: the response
HandlerResponse(route, outcome) ==
    IF route = "health" THEN
        JSONResponse(HTTP_200_OK,
                     [status |-> "ok", service |-> "dcid-server-sdk-test-server"])
    ELSE IF outcome.raised THEN handle_sdk_error(outcome.exc)
    ELSE LET built == reshape(route, outcome.result)
         IN  IF built.raised THEN handle_sdk_error(built.exc)
             ELSE JSONResponse(HTTP_200_OK, built.body)

\* a health check that resets the client's token
TokenAfterResponse_health_resets(route, token, outcome) ==
    IF route = "health" THEN None
    ELSE IF SDKRoutes[route].set_tokens /\ ~outcome.raised
    THEN Some(outcome.result.access_token)
    ELSE token

\* the client's token after the handler's statements that follow the SDK call:
\* sign_in_confirm and token_refresh pass the returned pair to sdk.set_tokens
TokenAfterResponse(route, token, outcome) ==
    IF route # "health" /\ SDKRoutes[route].set_tokens /\ ~outcome.raised
    THEN Some(outcome.result.access_token)
    ELSE token

(***************************************************************************)
(* Requests.                                                               *)
(***************************************************************************)
IdleSlot ==
    [pc |-> 0, route |-> "none", authorization |-> None, calls |-> <<>>,
     outcome |-> NoOutcome, response |-> NoResponse]

Busy(r) == slots[r].pc # 0
Done(r) == Busy(r) /\ slots[r].pc = Len(HandlerSteps(slots[r].route)) + 1
AtStep(r, name) ==
    /\ Busy(r) /\ ~Done(r)
    /\ HandlerSteps(slots[r].route)[slots[r].pc] = name

Init ==
    /\ authToken = None
    /\ slots = [r \in Slots |-> IdleSlot]
    /\ last = "none"

\* a validated request reaches its handler; at most `limit` are handled at a time
Arrive(r, routes, headers, limit) ==
    /\ ~Busy(r)
    /\ Cardinality({q \in Slots : Busy(q)}) < limit
    /\ \E route \in routes :
       \E h \in IF route # "health" /\ SDKRoutes[route].bearer THEN headers ELSE {None} :
          slots' = [slots EXCEPT ![r] =
                        [IdleSlot EXCEPT !.pc = 1, !.route = route, !.authorization = h]]
    /\ UNCHANGED <<authToken, last>>

\* set_auth_from_request waiting until no other request sits between its own
\* set_auth_from_request and its SDK call
SetAuth_locked(r) ==
    /\ AtStep(r, "set_auth")
    /\ \A q \in Slots \ {r} : ~AtStep(q, "sdk_call")
    /\ authToken' = set_auth_from_request(authToken, slots[r].authorization)
    /\ slots' = [slots EXCEPT ![r].pc = @ + 1]
    /\ UNCHANGED last

\* set_auth_from_request(authorization)
SetAuth(r) ==
    /\ AtStep(r, "set_auth")
    /\ authToken' = set_auth_from_request(authToken, slots[r].authorization)
    /\ slots' = [slots EXCEPT ![r].pc = @ + 1]
    /\ UNCHANGED last

\* result = sdk.<module>.<method>(...): runs under the client's current token
SdkCall(r, errors) ==
    /\ AtStep(r, "sdk_call")
    /\ \E outcome \in Outcomes(slots[r].route, errors) :
          slots' = [slots EXCEPT
                      ![r].pc = @ + 1,
                      ![r].calls = @ \o SdkInvocations(slots[r].route, authToken, outcome),
                      ![r].outcome = outcome]
    /\ UNCHANGED <<authToken, last>>

\* the rest of the handler: set_tokens, the returned body, or the except clause
Respond(r) ==
    /\ AtStep(r, "respond")
    /\ slots' = [slots EXCEPT
                    ![r].pc = @ + 1,
                    ![r].response = HandlerResponse(slots[r].route, slots[r].outcome)]
    /\ authToken' = TokenAfterResponse(slots[r].route, authToken, slots[r].outcome)
    /\ UNCHANGED last

\* the response is sent and the worker thread is free again
Retire(r) ==
    /\ Done(r)
    /\ last' = IF slots[r].response.status_code = HTTP_200_OK THEN "ok" ELSE "error"
    /\ slots' = [slots EXCEPT ![r] = IdleSlot]
    /\ UNCHANGED authToken

(***************************************************************************)
(* Spec: the server handling one request at a time.                        *)
(***************************************************************************)
Next ==
    \E r \in Slots :
        \/ Arrive(r, RouteNames, Headers, 1)
        \/ SetAuth(r)
        \/ SdkCall(r, HierarchyErrors)
        \/ Respond(r)
        \/ Retire(r)

Spec == Init /\ [][Next]_vars

(***************************************************************************)
(* SpecConc: worker threads handling requests concurrently.  FastAPI runs  *)
(* each `def` handler in a thread pool, so the statements of different     *)
(* requests interleave; nothing in main.py serialises them.                *)
(***************************************************************************)
ConcRoutes == {"get_encrypted_key"}
ConcHeaders == {None} \cup {Some(BearerPrefix \o <<c>>) : c \in TokenChars}

NextConc ==
    \E r \in Slots :
        \/ Arrive(r, ConcRoutes, ConcHeaders, NumSlots)
        \/ SetAuth(r)
        \/ SdkCall(r, {})
        \/ Respond(r)
        \/ Retire(r)

SpecConc == Init /\ [][NextConc]_vars

(***************************************************************************)
(* SpecErr: handle_sdk_error on every exception.  A handler is in its      *)
(* except clause with an exception raised by its SDK operation.            *)
(***************************************************************************)
InExcept(route, e) ==
    [IdleSlot EXCEPT
        !.pc = Len(HandlerSteps(route)),
        !.route = route,
        !.calls = SdkInvocations(route, None, Raised(e)),
        !.outcome = Raised(e)]

InitErr ==
    /\ authToken = None
    /\ last = "none"
    /\ \E route \in {"sign_in_initiate", "issue_credential"} :
       \E e \in AllErrors :
          slots = [r \in Slots |-> IF r = 1 THEN InExcept(route, e) ELSE IdleSlot]

NextErr ==
    \E r \in Slots :
        \/ Respond(r)
        \/ Retire(r)

SpecErr == InitErr /\ [][NextErr]_vars

(***************************************************************************)
(* Properties.                                                             *)
(***************************************************************************)
Failed(r) == Done(r) /\ slots[r].route # "health" /\ slots[r].outcome.raised
Caught(r) == slots[r].outcome.exc
StatusOr(e, default) == IF e.status_code.some THEN e.status_code.val ELSE default

ClassOrder == <<"AuthenticationError", "NetworkError", "ServerError", "DCIDServerSDKError">>
TypeTags == <<"AuthenticationError", "NetworkError", "ServerError", "SDKError">>

\* position in ClassOrder of the first class the exception is an instance of;
\* 5 when it is an instance of none
FirstMatch(e) ==
    IF \E i \in 1..4 : ClassOrder[i] \in e.classes
    THEN CHOOSE i \in 1..4 :
            /\ ClassOrder[i] \in e.classes
            /\ \A j \in 1..(i - 1) : ClassOrder[j] \notin e.classes
    ELSE 5

\* C1: handle_sdk_error classifies an exception by the first class it is an
\* instance of, in the order AuthenticationError, NetworkError, ServerError,
\* DCIDServerSDKError, anything else: the response's type tag is respectively
\* AuthenticationError, NetworkError, ServerError, SDKError, UnknownError and
\* its status is (the error's status or 401), 502, (status or 500),
\* (status or 500), 500.
C1_FirstMatchWins ==
    \A r \in Slots :
        Failed(r) =>
            LET e == Caught(r)
                i == FirstMatch(e)
                resp == slots[r].response
            IN  /\ resp.body.type = (IF i = 5 THEN "UnknownError" ELSE TypeTags[i])
                /\ resp.status_code =
                      CASE i = 1 -> StatusOr(e, 401)
                        [] i = 2 -> 502
                        [] i = 3 -> StatusOr(e, 500)
                        [] i = 4 -> StatusOr(e, 500)
                        [] i = 5 -> 500

\* an exception that is both an AuthenticationError and a NetworkError, and
\* carries a status, has been answered as an AuthenticationError
C1_Witness ==
    \E r \in Slots :
        /\ Failed(r)
        /\ {"AuthenticationError", "NetworkError"} \subseteq Caught(r).classes
        /\ Caught(r).status_code = Some(503)
        /\ slots[r].response.body.type = "AuthenticationError"
        /\ slots[r].response.status_code = 503

\* C2: when the SDK call of a route raises an authentication error without a
\* status the response status is 401, when the error carries a status that
\* status is the response status, and the body's isAPIKeyError field equals
\* the error's own flag.
C2_AuthenticationError ==
    \A r \in Slots :
        (Failed(r) /\ "AuthenticationError" \in Caught(r).classes) =>
            LET e == Caught(r)
                resp == slots[r].response
            IN  /\ (~e.status_code.some => resp.status_code = 401)
                /\ (e.status_code.some => resp.status_code = e.status_code.val)
                /\ "isAPIKeyError" \in DOMAIN resp.body
                /\ resp.body.isAPIKeyError = e.is_api_key_error

\* a status-less API-key error raised by token_refresh was answered 401 with
\* isAPIKeyError true
C2_Witness ==
    \E r \in Slots :
        /\ Failed(r)
        /\ slots[r].route = "token_refresh"
        /\ "AuthenticationError" \in Caught(r).classes
        /\ ~Caught(r).status_code.some
        /\ Caught(r).is_api_key_error
        /\ slots[r].response.status_code = 401
        /\ slots[r].response.body.isAPIKeyError

\* C3: when the SDK call of a route raises a network error the response
\* status is 502 for every code and every status the error carries, and the
\* body's code field equals the error's code.
C3_NetworkError ==
    \A r \in Slots :
        (/\ Failed(r)
         /\ "NetworkError" \in Caught(r).classes
         /\ "AuthenticationError" \notin Caught(r).classes) =>
            /\ slots[r].response.status_code = 502
            /\ "code" \in DOMAIN slots[r].response.body
            /\ slots[r].response.body.code = Caught(r).code

\* a network error that carries status 503 and code ETIMEDOUT answered 502
C3_Witness ==
    \E r \in Slots :
        /\ Failed(r)
        /\ "NetworkError" \in Caught(r).classes
        /\ Caught(r).status_code = Some(503)
        /\ Caught(r).code = "ETIMEDOUT"
        /\ slots[r].response.status_code = 502
        /\ slots[r].response.body.code = "ETIMEDOUT"

\* the step of request r that runs set_auth_from_request
SetAuthStep(r) == AtStep(r, "set_auth") /\ slots'[r].pc = slots[r].pc + 1

\* C4: set_auth_from_request installs a token only when the Authorization
\* header is "Bearer " (7 characters) followed by some text, and then the
\* client's token is exactly that text; for every other header (absent,
\* empty, other prefix) the client's token is unchanged.
C4_SetAuthFromRequest ==
    [][ \A r \in Slots :
          SetAuthStep(r) =>
            LET h == slots[r].authorization
            IN  /\ Len(BearerPrefix) = 7
                /\ \A t \in TokenTexts :
                      h = Some(BearerPrefix \o t) => authToken' = Some(t)
                /\ (~\E t \in TokenTexts : h = Some(BearerPrefix \o t)) =>
                      authToken' = authToken ]_vars

\* a request whose header is "bearer a" has passed set_auth_from_request and
\* the client still holds the token "b" of an earlier request
C4_Witness ==
    \E r \in Slots :
        /\ AtStep(r, "sdk_call")
        /\ SDKRoutes[slots[r].route].bearer
        /\ slots[r].authorization = Some(<<"b", "e", "a", "r", "e", "r", " ", "a">>)
        /\ authToken = Some(<<"b">>)

\* the result the SDK operation returned lacks something the handler reads
BodyFails(r) ==
    /\ Done(r) /\ slots[r].route # "health" /\ ~slots[r].outcome.raised
    /\ LET res == DOMAIN slots[r].outcome.result
       IN  IF slots[r].route = "issue_credential"
           THEN \/ "qr_code_link" \in res /\ "schema_type" \notin res
                \/ "qr_code_link" \notin res /\ ~({"tx_id", "claim_id"} \subseteq res)
           ELSE ~(ShapeAttrs(slots[r].route) \subseteq res)

C6_IssueCredentialShapes ==
    \A r \in Slots :
        (Done(r) /\ slots[r].route = "issue_credential" /\ ~slots[r].outcome.raised) =>
            LET res == slots[r].outcome.result
                resp == slots[r].response
                keys == DOMAIN resp.body
            IN  /\ {"qr_code_link", "schema_type"} \subseteq DOMAIN res =>
                      /\ resp.status_code = 200
                      /\ keys = {"qrCodeLink", "schemaType"}
                      /\ resp.body.qrCodeLink = res["qr_code_link"]
                      /\ resp.body.schemaType = res["schema_type"]
                /\ ("qr_code_link" \notin DOMAIN res
                      /\ {"tx_id", "claim_id"} \subseteq DOMAIN res) =>
                      /\ resp.status_code = 200
                      /\ keys = {"txId", "claimId"}
                      /\ resp.body.txId = res["tx_id"]
                      /\ resp.body.claimId = res["claim_id"]
                /\ resp.status_code = 200 =>
                      /\ keys \in {{"qrCodeLink", "schemaType"}, {"txId", "claimId"}}
                      /\ (keys = {"qrCodeLink", "schemaType"} <=>
                            "qr_code_link" \in DOMAIN res)

\* a result that carries a QR-code link and a transaction id was answered with
\* the QR-code shape alone
C6_Witness ==
    \E r \in Slots :
        /\ Done(r) /\ slots[r].route = "issue_credential"
        /\ ~slots[r].outcome.raised
        /\ DOMAIN slots[r].outcome.result = IssueCredentialKeys
        /\ slots[r].response.status_code = 200
        /\ DOMAIN slots[r].response.body = {"qrCodeLink", "schemaType"}

\* the token text of a well-formed header "Bearer <text>"
WellFormed(r) ==
    /\ Busy(r)
    /\ slots[r].authorization.some
    /\ \E t \in TokenTexts : slots[r].authorization.val = BearerPrefix \o t
OwnToken(r) == CHOOSE t \in TokenTexts : slots[r].authorization.val = BearerPrefix \o t

\* C7: nothing serialises the requests' use of the shared client: while one
\* request sits between its set_auth_from_request and its SDK call, another
\* request's set_auth_from_request can run, and the first request's SDK call
\* can still run afterwards.
C7_NoLock ==
    \A a \in Slots : \A b \in Slots \ {a} :
        /\ (AtStep(a, "sdk_call") /\ AtStep(b, "set_auth")) => ENABLED SetAuth(b)
        /\ (AtStep(a, "sdk_call") /\ AtStep(b, "sdk_call")) => ENABLED SdkCall(a, {})

\* request a carried "Bearer <ta>", request b carried another token and
\* installed it after a did, and a's SDK operation ran under b's token
C7_Witness ==
    \E a \in Slots : \E b \in Slots \ {a} :
        /\ WellFormed(a) /\ WellFormed(b)
        /\ OwnToken(a) # OwnToken(b)
        /\ AtStep(b, "sdk_call")
        /\ AtStep(a, "respond")
        /\ slots[a].calls # <<>>
        /\ slots[a].calls[1].token = Some(OwnToken(b))

\* C8: /health is answered 200 with the fixed body whatever the client's
\* token is and however earlier requests ended; handling it calls no SDK
\* operation and leaves the client's token as it was.
C8_Health ==
    /\ [](\A r \in Slots :
            /\ (Busy(r) /\ slots[r].route = "health") =>
                  /\ slots[r].calls = <<>>
                  /\ ~Done(r) => ENABLED Respond(r)
            /\ (Done(r) /\ slots[r].route = "health") =>
                  slots[r].response =
                     [status_code |-> 200, media |-> "application/json",
                      body |-> [status |-> "ok",
                                service |-> "dcid-server-sdk-test-server"]])
    /\ [][ \A r \in Slots :
             (slots'[r] # slots[r]
                /\ (slots[r].route = "health" \/ slots'[r].route = "health")) =>
                authToken' = authToken ]_vars

\* a health check answered 200 while the client holds a token and the request
\* before it failed
C8_Witness ==
    /\ last = "error"
    /\ authToken # None
    /\ \E r \in Slots :
          /\ Done(r) /\ slots[r].route = "health"
          /\ slots[r].response.status_code = 200

\* C9: a request on a route other than /health invokes one operation of one
\* of the SDK's sub-modules, once: not again after it raised, and no second
\* operation after it returned.
C9_OneSdkCall ==
    \A r \in Slots :
        /\ Busy(r) => Len(slots[r].calls) <= 1
        /\ (Done(r) /\ slots[r].route # "health") =>
              /\ Len(slots[r].calls) = 1
              /\ slots[r].calls[1].op[1] \in SDKModules
              /\ slots[r].calls[1].op = SDKRoutes[slots[r].route].op

\* a request whose SDK operation raised has been answered with one call made
C9_Witness ==
    \E r \in Slots :
        /\ Failed(r)
        /\ Len(slots[r].calls) = 1
        /\ slots[r].response.status_code # 200

\* C10: with requests handled one at a time, the SDK operation of every
\* request on a bearer route that carries "Bearer <token>" runs under that
\* token: set_auth_from_request has installed it before the operation starts.
C10_OwnToken ==
    \A r \in Slots :
        (WellFormed(r) /\ SDKRoutes[slots[r].route].bearer) =>
            /\ \A i \in 1..Len(slots[r].calls) :
                  slots[r].calls[i].token = Some(OwnToken(r))
            /\ AtStep(r, "sdk_call") => authToken = Some(OwnToken(r))

\* after an earlier request was answered, a request carrying "Bearer b" has
\* run its operation under "b"
C10_Witness ==
    /\ last # "none"
    /\ \E r \in Slots :
          /\ WellFormed(r)
          /\ OwnToken(r) = <<"b">>
          /\ Done(r)
          /\ slots[r].calls # <<>>
          /\ slots[r].calls[1].token = Some(<<"b">>)

\* the step of request r that runs its SDK operation, and the one that runs
\* the rest of its handler
SdkCallStep(r) == AtStep(r, "sdk_call") /\ slots'[r].pc = slots[r].pc + 1
RespondStep(r) == AtStep(r, "respond") /\ slots'[r].pc = slots[r].pc + 1

TokenRoutes == {"sign_in_confirm", "token_refresh"}

\* C11: the client's credential persists across requests and is never
\* cleared.  Its only writes are set_auth_from_request of a request with a
\* well-formed "Bearer <token>" header (on a bearer route) and the set_tokens
\* of a sign_in_confirm or token_refresh whose SDK call returned (a failed one
\* writes nothing); every other step leaves it as it is, and every SDK
\* operation runs under the credential the client holds at that moment.  So
\* a request with no or a malformed header runs under the latest earlier
\* write.
C11_CredentialPersists ==
    [][ /\ authToken # None => authToken' # None
        /\ \A r \in Slots :
             /\ SetAuthStep(r) =>
                  IF WellFormed(r)
                  THEN authToken' = Some(OwnToken(r))
                  ELSE authToken' = authToken
             /\ SdkCallStep(r) =>
                  /\ authToken' = authToken
                  /\ Len(slots'[r].calls) = 1
                  /\ slots'[r].calls[1].token = authToken
             /\ RespondStep(r) =>
                  IF slots[r].route \in TokenRoutes /\ ~slots[r].outcome.raised
                  THEN authToken' = Some(slots[r].outcome.result.access_token)
                  ELSE authToken' = authToken
             /\ (slots'[r] # slots[r] /\ (~Busy(r) \/ Done(r))) =>
                  authToken' = authToken ]_vars

\* after a sign-in installed the token "s" and a later token_refresh failed, a
\* request to a bearer route with the malformed header "bearer a" ran its
\* operation under "s"
C11_Witness ==
    /\ last = "error"
    /\ \E r \in Slots :
          /\ Done(r)
          /\ slots[r].route = "get_encrypted_key"
          /\ slots[r].authorization = Some(<<"b", "e", "a", "r", "e", "r", " ", "a">>)
          /\ slots[r].calls # <<>>
          /\ slots[r].calls[1].token = Some(<<"s">>)

====
